---- MODULE Spec2Model ----
(***************************************************************************)
(* Provider fallback (ImageGenerator.generate_image,                       *)
(* VoiceGenerator.generate_voice), the scene pipelines of VideoMaker, its  *)
(* image clips, two runs sharing one working directory, and the            *)
(* status-polling loops of the video providers, as state machines.         *)
(* Durations are integers in tenths of a second.                           *)
(***************************************************************************)
EXTENDS Integers, Sequences, FiniteSets, TLC

\* ------------------------------------------------------------------ bounds
MaxKeys == 1        \* at most this many providers have a key in api_manager.api_keys
MaxCalls == 2       \* generation calls made on one generator object
MaxScenes == 3      \* scenes of one create_complete_video run
MaxBadImages == 1   \* image files of a run that ImageClip cannot read
MaxPrompts == 2     \* prompts of one image loop (create_images_tab, generate_batch_images)
MaxClips == 2       \* images of one create_video_from_images run
MaxSessionScenes == 2   \* scenes of each of two runs that execute side by side

\* --------------------------------------------------------------- constants
Null == "None"                         \* Python None / empty credential

ImageProviders == {"openai", "stability", "replicate", "huggingface", "pollinations"}
VoiceProviders == {"edge", "openai", "gtts", "azure", "elevenlabs"}
\* provider names a caller may pass to the constructors
ImageRequests == ImageProviders \cup {"craiyon"}
VoiceRequests == VoiceProviders \cup {"other"}
\* providers whose key api_manager may hold
KeyProviders == {"openai", "stability", "replicate", "huggingface", "elevenlabs", "azure"}
\* providers whose request is rejected without their own credential
NeedsKey == {"openai", "stability", "replicate", "elevenlabs", "azure"}

NumUrls == 5        \* len(urls_to_try) in _generate_pollinations_image
NumRetries == 3     \* range(3) per URL
NumEdgeVoices == 4  \* len(voices_to_try) in _generate_edge_tts

Buffer == 5         \* the 0.5 s added to the narration length, in tenths
ReqDurations == {30}            \* scene_duration, in tenths of a second
AudioDurations == {0, 12, 72}   \* AudioFileClip(...).duration, in tenths

\* narration lengths met by _add_audio_to_clip: also one equal to the clip's
ClipAudioDurations == AudioDurations \cup ReqDurations

\* the status-polling loops
PollKinds == {"veo3", "flow", "runwayml", "pika"}
MaxWait == 300                \* max_wait, in seconds
SleepSeconds == 10            \* time.sleep(10) of the two max_wait loops
RunwayMaxAttempts == 30       \* max_attempts of _poll_runwayml_result
PikaMaxAttempts == 20         \* max_attempts of _poll_pika_result
\* what one status check can answer: the job still runs, it completed with or
\* without a video URL, it failed, or the check itself failed
StatusAnswers == {"pending", "completed", "completed_nourl", "failed", "error"}
\* the answers that say the job is over without a video
TerminalAnswers == {"failed", "completed_nourl"}
\* seconds one status request of wait_for_video_completion can take
RequestSeconds == {0, 10}

StoredKeySets == {S \in SUBSET KeyProviders : Cardinality(S) <= MaxKeys}

VARIABLES
    entry,        \* which entry point this run exercises
    api_keys,     \* api_manager.api_keys: the providers with a stored key
    cap,          \* capability of the generator object: "image" | "voice"
    provider,     \* self.provider
    api_key,      \* self.api_key: Null, or the provider the credential belongs to
    pc,           \* position of the generation call
    providers_to_try,
    pidx,         \* index of the for loop over providers_to_try
    url, retry,   \* loop indices of _generate_pollinations_image
    vidx,         \* loop index of _generate_edge_tts
    last_error,
    outcome,      \* what the call gave its caller: Null, a return or a raise
    file,         \* content of output_path
    validated,    \* the content of output_path passed the content-type and size checks
    response,     \* the answer to the last requests.get of _generate_pollinations_image
    tried,        \* the "Trying ... provider" log lines of this call
    failures,     \* the "Provider ... failed" warnings of this call
    attempts,     \* requests sent to each provider during this call
    succeeded,    \* a provider attempt of this call has succeeded
    invokedAfterSuccess,  \* a request was sent after a success in this call
    calls,        \* generation calls started on this generator
    step,         \* position of the enclosing run (create_complete_video)
    scenes,       \* the scenes argument
    images,       \* image_paths: TRUE where ImageClip can read the file
    scene_durations,
    scene_texts,
    voice_setting,         \* voice_settings["provider"]
    background_music,      \* background_music is given and the file exists
    si,                    \* index of the loop over scenes that is running
    tts_files,
    tts_called,            \* per scene: generate_voice was called for it
    video_clips,
    adjusted_scene_durations,
    audio_clips,
    current_time,
    loaded,                \* per reconciled scene: the audio duration read, or -1
    starts,                \* per reconciled scene: current_time when its iteration began
    final_video,
    result,                \* what the run gave its caller
    num_prompts,           \* len(selected_scenes) / len(prompts)
    image_paths,           \* the list the image loop builds
    session_paths,         \* st.session_state.image_paths
    img_failed,            \* the prompts whose generate_image call raised
    image_clips,           \* clips of create_video_from_images
    scene_audio_paths,
    poll_kind,             \* which status-polling loop runs
    poll_pc,               \* position of the polling loop
    checks,                \* status checks made so far
    wait_time,             \* seconds waited (wait_time, time.time() - start_time)
    attempt,               \* loop index of the for loops over max_attempts
    job_completed,         \* a status check has answered that the job completed
    poll_result,           \* what the polling function gave its caller
    motion_result,         \* what generate_motion gave its caller
    effect_clip,           \* the clip _create_image_clip returned
    writes,                \* calls of write_videofile in this run
    sessions,              \* two runs in one working directory: where each is
    temp_owner,            \* per temporary path: the run that wrote it last, or 0
    terminal_seen,         \* a status check answered failed, or succeeded without a URL
    file_before            \* content of output_path when the running call began

cfgVars == <<entry, api_keys>>
genVars == <<cap, provider, api_key>>
frameVars == <<providers_to_try, pidx, url, retry, vidx, last_error>>
histVars == <<file, validated, response, tried, failures, attempts, succeeded, invokedAfterSuccess>>
callVars == <<pc, providers_to_try, pidx, url, retry, vidx, last_error, outcome,
              file, validated, response, tried, failures, attempts, succeeded, invokedAfterSuccess, calls>>
inputVars == <<scenes, images, scene_durations, scene_texts, voice_setting, background_music>>
ttsVars == <<tts_files, tts_called>>
reconVars == <<adjusted_scene_durations, audio_clips, current_time, loaded, starts>>
clipVars == <<image_clips, scene_audio_paths>>
pollVars == <<poll_kind, poll_pc, checks, wait_time, attempt, job_completed,
              poll_result, motion_result>>
auxVars == <<effect_clip, writes, sessions, temp_owner, terminal_seen, file_before>>
imgVars == <<num_prompts, image_paths, session_paths, img_failed>>
videoVars == <<scenes, images, scene_durations, scene_texts, voice_setting, background_music,
               tts_files, tts_called, video_clips, adjusted_scene_durations,
               audio_clips, current_time, loaded, starts, final_video>>
runVars == <<step, scenes, images, scene_durations, scene_texts, voice_setting, background_music, si,
             tts_files, tts_called, video_clips, adjusted_scene_durations,
             audio_clips, current_time, loaded, starts, final_video, result,
             num_prompts, image_paths, session_paths, img_failed>>
vars == <<entry, api_keys, cap, provider, api_key, pc, providers_to_try, pidx,
          url, retry, vidx, last_error, outcome, file, validated, response, tried, failures,
          attempts, succeeded, invokedAfterSuccess, calls, step, scenes, images,
          scene_durations, scene_texts, voice_setting, background_music, si, tts_files, tts_called,
          video_clips, adjusted_scene_durations, audio_clips, current_time,
          loaded, starts, final_video, result, num_prompts, image_paths,
          session_paths, img_failed, image_clips, scene_audio_paths, poll_kind,
          poll_pc, checks, wait_time, attempt, job_completed, poll_result,
          motion_result, effect_clip, writes, sessions, temp_owner, terminal_seen,
          file_before>>

NoFile == [writer |-> Null, valid |-> FALSE]
AllProviders == ImageRequests \cup VoiceRequests
ZeroAttempts == [p \in AllProviders |-> 0]

\* the three parameter sets of _apply_ken_burns_effect: zoom_speed and
\* pan_speed in tenths, zoom_factor in hundredths
FastTier == [zoom_speed |-> 8, pan_speed |-> 6, zoom_factor |-> 30]
MediumTier == [zoom_speed |-> 10, pan_speed |-> 8, zoom_factor |-> 20]
SlowTier == [zoom_speed |-> 12, pan_speed |-> 10, zoom_factor |-> 15]
\* no zoom and no pan: the clip did not go through _apply_ken_burns_effect
NoTier == [zoom_speed |-> 0, pan_speed |-> 0, zoom_factor |-> 0]
\* no clip yet
NoClip == [duration |-> 0, effect |-> Null, moved |-> FALSE, tier |-> NoTier]

\* two pipeline runs (two UI sessions) in the same working directory
Runs == {1, 2}
RunKinds == {"complete", "from_images"}
NoPath == <<Null, 0>>
\* f"temp/scene_{k}_tts.mp3"
ScenePath(k) == <<"temp/scene_tts.mp3", k>>
\* temp_audiofile='temp-audio.m4a'
TempAudioPath == <<"temp-audio.m4a", 0>>
TempPaths == {ScenePath(k) : k \in 0..MaxSessionScenes} \cup {TempAudioPath}
NoSession == [kind |-> Null, pc |-> "new", n |-> 0, scene |-> 0, writing |-> NoPath,
              foreign |-> FALSE]

\* ------------------------------------------------------------ constructors
\* api_manager.get_api_key
get_api_key(keys, p) == IF p \in keys THEN p ELSE Null

\* self.api_key = api_key or api_manager.get_api_key(self.provider)
InitApiKey(p, ctorKey, keys) == IF ctorKey THEN p ELSE get_api_key(keys, p)

\* the providers whose constructor raises ValueError without a key
ImageCtorRequiresKey == {"openai", "stability", "replicate"}
VoiceCtorRequiresKey == {"openai"}

CtorRaises(c, p, key) ==
    /\ key = Null
    /\ p \in (IF c = "image" THEN ImageCtorRequiresKey ELSE VoiceCtorRequiresKey)

\* ------------------------------------------------------- candidate lists
\* available_providers of generate_image, in the order it is built
AvailableImageProviders(keys) ==
    LET opt(p) == IF get_api_key(keys, p) # Null THEN <<p>> ELSE <<>>
    IN  opt("openai") \o opt("stability") \o opt("replicate") \o opt("huggingface")
          \o <<"pollinations">>

SeqRange(s) == {s[i] : i \in 1..Len(s)}

\* a variant that keeps every available provider as a fallback
ImageProvidersToTry_Fallback(p, keys) == AvailableImageProviders(keys)

ImageProvidersToTry(p, keys) ==
    IF p \in SeqRange(AvailableImageProviders(keys)) THEN <<p>> ELSE <<"pollinations">>

VoiceProvidersToTry(p) ==
    CASE p = "edge"       -> <<"edge", "elevenlabs", "gtts", "openai", "azure">>
      [] p = "openai"     -> <<"openai", "elevenlabs", "gtts", "edge", "azure">>
      [] p = "gtts"       -> <<"gtts", "elevenlabs", "edge", "openai", "azure">>
      [] p = "azure"      -> <<"azure", "elevenlabs", "gtts", "edge", "openai">>
      [] p = "elevenlabs" -> <<"elevenlabs", "edge", "gtts", "openai", "azure">>
      [] OTHER            -> <<"elevenlabs", "gtts", "edge", "openai", "azure">>

\* ---------------------------------------------------- provider outcomes
\* what one request to provider q can answer when it is sent key
SimpleOutcomes(q, key) ==
    (IF q \in NeedsKey /\ key # q THEN {} ELSE {"ok"})
      \cup (IF q \in NeedsKey THEN {"auth"} ELSE {})
      \cup {"error"}
      \cup (IF q = "huggingface" THEN {"badtype", "small"} ELSE {})

PollinationsOutcomes == {"ok", "5xx", "timeout", "reqerr", "badtype", "small", "other"}
EdgeOutcomes == {"ok", "timeout", "e403", "error"}

\* a variant that leaves the retry loop on success without returning
PollinationsControl_NoReturn(o, r) ==
    IF o \in {"5xx", "timeout", "reqerr"} /\ r < NumRetries - 1 THEN "retry" ELSE "nexturl"

\* a variant that also retries an answer that is not a usable image
PollinationsControl_RetryInvalid(o, r) ==
    CASE o = "ok" -> "return"
      [] o \in {"5xx", "timeout", "reqerr", "badtype", "small"} ->
            IF r < NumRetries - 1 THEN "retry" ELSE "nexturl"
      [] OTHER -> "nexturl"

\* control flow of the retry loop of _generate_pollinations_image
PollinationsControl(o, r) ==
    CASE o = "ok" -> "return"
      [] o \in {"5xx", "timeout", "reqerr"} ->
            IF r < NumRetries - 1 THEN "retry" ELSE "nexturl"
      [] OTHER -> "nexturl"

\* a variant that takes a 403 answer for a saved file
EdgeControl_403Accepted(o) ==
    CASE o \in {"ok", "e403"} -> "return"
      [] o = "timeout" -> "nextvoice"
      [] OTHER -> "raise"

\* control flow of the voice loop of _generate_edge_tts
EdgeControl(o) ==
    CASE o = "ok" -> "return"
      [] o \in {"timeout", "e403"} -> "nextvoice"
      [] OTHER -> "raise"

\* the credential a request to voice provider q carries when the generator
\* holds key: OpenAI(api_key=self.api_key), "xi-api-key": self.api_key,
\* SpeechConfig(subscription=self.api_key); edge and gtts send none
CredentialSent(q, key) == IF q \in {"openai", "elevenlabs", "azure"} THEN key ELSE Null

\* the outcomes after which the provider has already written output_path
WritesFile(q, o) ==
    \/ o = "ok"
    \/ o = "small" /\ q \in {"pollinations", "huggingface"}

\* the providers that check the content type and the size of what they save
Validates(q) == q \in {"pollinations", "huggingface"}

\* a variant that reports the first failure instead of the last
RaisedError_First(fails, last) ==
    [kind |-> "raise", type |-> "Exception", errors |-> <<fails[1]>>]

\* the exception generate_image / generate_voice raise after the loop
RaisedError(fails, last) == [kind |-> "raise", type |-> "Exception", errors |-> <<last>>]

Returned == [kind |-> "return", type |-> "path", errors |-> <<>>]
Raised(t) == [kind |-> "raise", type |-> t, errors |-> <<>>]

\* -------------------------------------------------------------------- Init
\* no music in the audio of the video
NoMusic == [source |-> 0, length |-> 0, loops |-> 0, volume |-> 0, mode |-> Null]
NoVideo == [clips |-> <<>>, audio |-> Null, music |-> NoMusic]

Init ==
    /\ \/ /\ entry \in {"image", "voice"}
          /\ api_keys \in StoredKeySets
          /\ cap = entry
       \/ /\ entry = "video"
          /\ api_keys = {}
          /\ cap = "voice"
       \/ /\ entry \in {"app", "batch"}
          /\ api_keys \in StoredKeySets
          /\ cap = "image"
       \/ /\ entry = "from_images"
          /\ api_keys = {}
          /\ cap = "voice"
       \/ /\ entry = "poll"
          /\ api_keys = {}
          /\ cap = "motion"
       \/ /\ entry \in {"effect", "sessions"}
          /\ api_keys = {}
          /\ cap = "video"
    /\ step = "new"
    /\ scenes = <<>>
    /\ images = <<>>
    /\ scene_durations = <<>>
    /\ scene_texts = <<>>
    /\ voice_setting = Null
    /\ background_music = FALSE
    /\ si = 0
    /\ tts_files = <<>>
    /\ tts_called = <<>>
    /\ video_clips = <<>>
    /\ adjusted_scene_durations = <<>>
    /\ audio_clips = <<>>
    /\ current_time = 0
    /\ loaded = <<>>
    /\ starts = <<>>
    /\ final_video = NoVideo
    /\ result = Null
    /\ num_prompts = 0
    /\ image_paths = <<>>
    /\ session_paths = Null
    /\ img_failed = {}
    /\ image_clips = <<>>
    /\ scene_audio_paths = <<>>
    /\ poll_kind = Null
    /\ poll_pc = "new"
    /\ checks = 0
    /\ wait_time = 0
    /\ attempt = 0
    /\ job_completed = FALSE
    /\ poll_result = Null
    /\ motion_result = Null
    /\ effect_clip = NoClip
    /\ writes = 0
    /\ sessions = [r \in Runs |-> NoSession]
    /\ temp_owner = [f \in TempPaths |-> 0]
    /\ terminal_seen = FALSE
    /\ file_before = NoFile
    /\ provider = Null
    /\ api_key = Null
    /\ pc = "new"
    /\ providers_to_try = <<>>
    /\ pidx = 0
    /\ url = 0
    /\ retry = 0
    /\ vidx = 0
    /\ last_error = Null
    /\ outcome = Null
    /\ file = NoFile
    /\ validated = FALSE
    /\ response = Null
    /\ tried = <<>>
    /\ failures = <<>>
    /\ attempts = ZeroAttempts
    /\ succeeded = FALSE
    /\ invokedAfterSuccess = FALSE
    /\ calls = 0

\* ----------------------------------------------------------------- actions
\* ImageGenerator.__init__ / VoiceGenerator.__init__
Construct ==
    /\ entry \in {"image", "voice", "batch"}
    /\ pc = "new"
    /\ \E p \in (IF cap = "image" THEN ImageRequests ELSE VoiceRequests),
          ctorKey \in BOOLEAN :
          LET key == InitApiKey(p, ctorKey, api_keys) IN
          /\ provider' = p
          /\ api_key' = key
          /\ IF CtorRaises(cap, p, key)
               THEN /\ pc' = "ctor_error"
                    /\ outcome' = Raised("ValueError")
               ELSE /\ pc' = "ready"
                    /\ outcome' = outcome
    /\ UNCHANGED <<runVars, cfgVars, auxVars, pollVars, clipVars, cap, frameVars, histVars, calls>>

CallableNow ==
    /\ entry \in {"image", "voice"}
    /\ pc \in {"ready", "returned", "raised"}
    /\ calls < MaxCalls

\* generate_image up to the for loop
StartGenerateImage ==
    /\ cap = "image"
    /\ CallableNow
    /\ providers_to_try' = ImageProvidersToTry(provider, api_keys)
    /\ pidx' = 1
    /\ pc' = "loop"
    /\ last_error' = Null
    /\ outcome' = Null
    /\ tried' = <<>>
    /\ failures' = <<>>
    /\ attempts' = ZeroAttempts
    /\ succeeded' = FALSE
    /\ invokedAfterSuccess' = FALSE
    /\ calls' = calls + 1
    /\ response' = Null
    /\ file_before' = file
    /\ UNCHANGED <<runVars, cfgVars, effect_clip, writes, sessions, temp_owner, terminal_seen,
                   pollVars, clipVars, genVars, url, retry, vidx, file, validated>>

\* generate_voice up to the for loop; an empty text raises ValueError
StartGenerateVoice ==
    /\ cap = "voice"
    /\ CallableNow
    /\ \E textEmpty \in BOOLEAN :
          IF textEmpty
            THEN /\ pc' = "raised"
                 /\ outcome' = Raised("ValueError")
                 /\ UNCHANGED <<providers_to_try, pidx>>
            ELSE /\ pc' = "loop"
                 /\ outcome' = Null
                 /\ providers_to_try' = VoiceProvidersToTry(provider)
                 /\ pidx' = 1
    /\ last_error' = Null
    /\ tried' = <<>>
    /\ failures' = <<>>
    /\ attempts' = ZeroAttempts
    /\ succeeded' = FALSE
    /\ invokedAfterSuccess' = FALSE
    /\ calls' = calls + 1
    /\ response' = Null
    /\ UNCHANGED <<runVars, cfgVars, auxVars, pollVars, clipVars, genVars, url, retry, vidx, file,
                   validated>>

\* one request to provider q with the given outcome: the history it leaves
Request(q, o) ==
    /\ attempts' = [attempts EXCEPT ![q] = @ + 1]
    /\ invokedAfterSuccess' = (invokedAfterSuccess \/ succeeded)
    /\ succeeded' = (succeeded \/ o = "ok")
    /\ file' = IF WritesFile(q, o) THEN [writer |-> q, valid |-> (o = "ok")] ELSE file
    /\ validated' = IF WritesFile(q, o) THEN Validates(q) /\ o = "ok" ELSE validated

\* the except clause of the provider loop: remember the error, continue
ProviderFailed(q, reason) ==
    /\ failures' = Append(failures, <<q, reason>>)
    /\ last_error' = <<q, reason>>
    /\ pidx' = pidx + 1
    /\ pc' = "loop"
    /\ outcome' = outcome

\* a variant in which the generator keeps the provider it fell back to
SelfAfterDispatch_Sticky(p, key, q) == [provider |-> q, api_key |-> key]

\* self.provider and self.api_key after the loop dispatched to provider q:
\* generate_image, generate_voice and the _generate_* methods read them and
\* assign neither
SelfAfterDispatch(p, key, q) == [provider |-> p, api_key |-> key]

\* the dispatch to provider q leaves the generator and api_manager as this
Dispatch(q) ==
    /\ provider' = SelfAfterDispatch(provider, api_key, q).provider
    /\ api_key' = SelfAfterDispatch(provider, api_key, q).api_key
    /\ cap' = cap

\* a provider that is one request: openai, stability, replicate, huggingface,
\* gtts, azure, elevenlabs
TrySimpleProvider ==
    /\ pc = "loop"
    /\ pidx <= Len(providers_to_try)
    /\ LET q == providers_to_try[pidx] IN
       /\ q \notin {"pollinations", "edge"}
       /\ tried' = Append(tried, q)
       /\ Dispatch(q)
       /\ \E o \in SimpleOutcomes(q, api_key) :
            /\ Request(q, o)
            /\ IF o = "ok"
                 THEN /\ pc' = "returned"
                      /\ outcome' = Returned
                      /\ UNCHANGED <<failures, last_error, pidx>>
                 ELSE ProviderFailed(q, o)
    /\ UNCHANGED <<runVars, cfgVars, auxVars, pollVars, clipVars, providers_to_try, url, retry,
                   vidx, response, calls>>

\* entering _generate_pollinations_image
EnterPollinations ==
    /\ pc = "loop"
    /\ pidx <= Len(providers_to_try)
    /\ providers_to_try[pidx] = "pollinations"
    /\ tried' = Append(tried, "pollinations")
    /\ Dispatch("pollinations")
    /\ url' = 1
    /\ retry' = 0
    /\ pc' = "poll"
    /\ UNCHANGED <<runVars, cfgVars, auxVars, pollVars, clipVars, providers_to_try, pidx, vidx, last_error,
                   outcome, file, validated, response, failures, attempts, succeeded,
                   invokedAfterSuccess, calls>>

\* one requests.get of the URL/retry loops of _generate_pollinations_image
PollinationsRequest ==
    /\ pc = "poll"
    /\ \E o \in PollinationsOutcomes :
         /\ Request("pollinations", o)
         /\ response' = o
         /\ LET c == PollinationsControl(o, retry) IN
            CASE c = "return" ->
                   /\ pc' = "returned"
                   /\ outcome' = Returned
                   /\ UNCHANGED <<url, retry, failures, last_error, pidx>>
              [] c = "retry" ->
                   /\ retry' = retry + 1
                   /\ UNCHANGED <<pc, outcome, url, failures, last_error, pidx>>
              [] OTHER ->
                   IF url < NumUrls
                     THEN /\ url' = url + 1
                          /\ retry' = 0
                          /\ UNCHANGED <<pc, outcome, failures, last_error, pidx>>
                     ELSE /\ ProviderFailed("pollinations", "exhausted")
                          /\ UNCHANGED <<url, retry>>
    /\ UNCHANGED <<runVars, cfgVars, auxVars, pollVars, clipVars, genVars, providers_to_try, vidx, tried, calls>>

\* entering _generate_edge_tts
EnterEdge ==
    /\ pc = "loop"
    /\ pidx <= Len(providers_to_try)
    /\ providers_to_try[pidx] = "edge"
    /\ tried' = Append(tried, "edge")
    /\ Dispatch("edge")
    /\ vidx' = 1
    /\ pc' = "edge"
    /\ UNCHANGED <<runVars, cfgVars, auxVars, pollVars, clipVars, providers_to_try, pidx, url, retry,
                   last_error, outcome, file, validated, response, failures, attempts, succeeded,
                   invokedAfterSuccess, calls>>

\* one communicate.save of the voice loop of _generate_edge_tts
EdgeRequest ==
    /\ pc = "edge"
    /\ \E o \in EdgeOutcomes :
         /\ Request("edge", o)
         /\ LET c == EdgeControl(o) IN
            CASE c = "return" ->
                   /\ pc' = "returned"
                   /\ outcome' = Returned
                   /\ UNCHANGED <<vidx, failures, last_error, pidx>>
              [] c = "nextvoice" /\ vidx < NumEdgeVoices ->
                   /\ vidx' = vidx + 1
                   /\ UNCHANGED <<pc, outcome, failures, last_error, pidx>>
              [] c = "nextvoice" /\ vidx >= NumEdgeVoices ->
                   /\ ProviderFailed("edge", "exhausted")
                   /\ UNCHANGED vidx
              [] OTHER ->
                   /\ ProviderFailed("edge", o)
                   /\ UNCHANGED vidx
    /\ UNCHANGED <<runVars, cfgVars, auxVars, pollVars, clipVars, genVars, providers_to_try, url, retry,
                   response, tried, calls>>

\* the for loop ran out of providers: raise
AllProvidersFailed ==
    /\ pc = "loop"
    /\ pidx > Len(providers_to_try)
    /\ pc' = "raised"
    /\ outcome' = RaisedError(failures, last_error)
    /\ UNCHANGED <<runVars, cfgVars, auxVars, pollVars, clipVars, genVars, frameVars, histVars, calls>>

\* ------------------------------------------------- create_complete_video
Scene(dlg, dtype, nar, ntype, desc) ==
    [dialogue |-> dlg, dialogue_type |-> dtype, narrator |-> nar,
     narrator_type |-> ntype, description |-> desc]

\* the scenes a run is given: spoken dialogue, description only, a blank
\* description, nothing at all
SceneKinds ==
    { Scene("dlg", "speech", "", "none", "desc"),
      Scene("", "none", "", "none", "desc"),
      Scene("", "none", "", "none", " "),
      Scene("", "none", "", "none", "") }

VideoVoiceSettings == {"edge", "openai", "none"}

\* the text create_complete_video hands to TTS for a scene
SceneText(s) ==
    IF s.dialogue # "" /\ s.dialogue_type # "none" THEN s.dialogue
    ELSE IF s.narrator # "" /\ s.narrator_type # "none" THEN s.narrator
    ELSE s.description

\* str.strip() on the texts of the model
Strip(t) == IF t = " " THEN "" ELSE t

\* a variant that forgets the strip
HasText_NoStrip(t) == t # ""

\* `text and text.strip()`
HasText(t) == t # "" /\ Strip(t) # ""

Min(a, b) == IF a <= b THEN a ELSE b
Last(s) == s[Len(s)]

\* a variant whose middle tier includes a duration of 5 s
KenBurnsTier_Upto5(d) ==
    IF d < 20 THEN FastTier ELSE IF d <= 50 THEN MediumTier ELSE SlowTier

\* _apply_ken_burns_effect: `if duration < 2.0 ... elif duration < 5.0 ... else`
KenBurnsTier(d) ==
    IF d < 20 THEN FastTier ELSE IF d < 50 THEN MediumTier ELSE SlowTier

\* the clip of scene i (1-based) out of cnt images: the Ken Burns parameters
\* of its duration, fade in unless first, fade out unless last
ClipOf(i, d, cnt) ==
    [scene |-> i, duration |-> d, tier |-> KenBurnsTier(d),
     fade_in |-> (i > 1), fade_out |-> (i < cnt)]

\* the clip loop: zip(image_paths, durations, effects), a clip that cannot be
\* built is logged and left out
BuildClips(imgs, durs) ==
    LET m == Min(Len(imgs), Len(durs))
        good == SelectSeq([i \in 1..m |-> i], LAMBDA i : imgs[i])
    IN  [k \in 1..Len(good) |-> ClipOf(good[k], durs[good[k]], Len(imgs))]

\* any(tts_files)
AnyTts(files) == \E i \in 1..Len(files) : files[i] # Null

\* a variant that never shortens a scene below its requested duration
AdjustedAfter_Max(adj, req, hasFile, loads, d, startOk) ==
    IF hasFile /\ loads /\ d > 0
      THEN Append(adj, IF d + Buffer > req THEN d + Buffer ELSE req)
      ELSE Append(adj, req)

\* one iteration of the reconciliation loop: what it appends to
\* adjusted_scene_durations.  hasFile: tts_file and os.path.exists(tts_file);
\* loads: AudioFileClip(tts_file) did not raise; d: its duration;
\* startOk: audio_clip.set_start(current_time) did not raise
AdjustedAfter(adj, req, hasFile, loads, d, startOk) ==
    IF ~hasFile THEN Append(adj, req)
    ELSE IF ~loads THEN Append(adj, req)
    ELSE IF d > 0
           THEN IF startOk THEN Append(adj, d + Buffer)
                ELSE Append(Append(adj, d + Buffer), req)
    ELSE Append(adj, req)

\* concatenate_audioclips: the clips are laid end to end from 0
RECURSIVE ConcatAudio(_, _)
ConcatAudio(clips, t) ==
    IF clips = <<>> THEN <<>>
    ELSE <<[scene |-> clips[1].scene, start |-> t, duration |-> clips[1].duration]>>
           \o ConcatAudio(Tail(clips), t + clips[1].duration)

RECURSIVE SumSeq(_)
SumSeq(q) == IF q = <<>> THEN 0 ELSE q[1] + SumSeq(Tail(q))

\* the duration of the concatenated clips
VideoLength(cl) == SumSeq([k \in 1..Len(cl) |-> cl[k].duration])

\* lengths of the music file, in tenths of a second
MusicDurations == {0, 40, 200}
TtsMusicVolume == 3     \* volumex(0.3) of _create_video_with_tts, in tenths
ClipMusicVolume == 5    \* volumex(0.5) of _add_background_music, in tenths

\* the music block of _create_video_with_tts and _add_background_music: a
\* music file of length m for a video of length v.  ok: AudioFileClip,
\* subclip, concatenate_audioclips, volumex and set_audio did not raise; a
\* music file of length 0 raises in the division.  On an exception the video
\* keeps the audio it had.  hasAudio: the video has an audio track already
MixMusic(vol, v, m, hasAudio, ok) ==
    IF ~ok THEN NoMusic
    ELSE IF m < v /\ m = 0 THEN NoMusic
    ELSE [source |-> m, length |-> v,
          loops |-> IF m < v THEN (v \div m) + 1 ELSE 1,
          volume |-> vol,
          mode |-> IF hasAudio THEN "composite" ELSE "main"]

\* back to the state between two generation calls
ResetCall ==
    /\ pc' = "ready"
    /\ outcome' = Null
    /\ providers_to_try' = <<>>
    /\ pidx' = 0
    /\ url' = 0
    /\ retry' = 0
    /\ vidx' = 0
    /\ last_error' = Null
    /\ file' = NoFile
    /\ validated' = FALSE
    /\ response' = Null
    /\ tried' = <<>>
    /\ failures' = <<>>
    /\ attempts' = ZeroAttempts
    /\ succeeded' = FALSE
    /\ invokedAfterSuccess' = FALSE
    /\ calls' = calls

\* create_complete_video up to the call of _create_video_with_tts
CreateCompleteVideo ==
    /\ entry = "video"
    /\ step = "new"
    /\ \E n \in 1..MaxScenes :
       \E sc \in [1..n -> SceneKinds], im \in [1..n -> BOOLEAN],
          d \in ReqDurations, vs \in VideoVoiceSettings :
          /\ Cardinality({i \in 1..n : ~im[i]}) <= MaxBadImages
          /\ scenes' = sc
          /\ images' = im
          /\ scene_durations' = [i \in 1..n |-> d]
          /\ scene_texts' = [i \in 1..n |-> SceneText(sc[i])]
          /\ voice_setting' = vs
          /\ background_music' = background_music
    /\ step' = "tts_setup"
    /\ UNCHANGED <<imgVars, cfgVars, auxVars, pollVars, clipVars, genVars, callVars, si, ttsVars, video_clips, reconVars,
                   final_video, result>>

\* _create_video_with_tts: building the VoiceGenerator, or no TTS at all
TTSSetup ==
    /\ step = "tts_setup"
    /\ LET n == Len(scene_texts)
           key == InitApiKey(voice_setting, FALSE, api_keys)
           none == [i \in 1..n |-> Null]
           nocall == [i \in 1..n |-> FALSE]
       IN
       IF voice_setting = "none"
         THEN /\ tts_files' = none
              /\ tts_called' = nocall
              /\ step' = "clips"
              /\ UNCHANGED <<genVars, pc, si>>
         ELSE /\ provider' = voice_setting
              /\ api_key' = key
              /\ cap' = cap
              /\ IF CtorRaises("voice", voice_setting, key)
                   THEN /\ pc' = "ctor_error"
                        /\ tts_files' = none
                        /\ tts_called' = nocall
                        /\ step' = "clips"
                        /\ si' = si
                   ELSE /\ pc' = "ready"
                        /\ step' = "tts"
                        /\ si' = 1
                        /\ UNCHANGED ttsVars
    /\ UNCHANGED <<imgVars, cfgVars, auxVars, pollVars, clipVars, inputVars, providers_to_try, pidx, url, retry, vidx,
                   last_error, outcome, file, validated, response, tried, failures, attempts, succeeded,
                   invokedAfterSuccess, calls, video_clips, reconVars, final_video,
                   result>>

\* the TTS loop for scene si: call generate_voice, or record None
TTSScene ==
    /\ step = "tts"
    /\ pc = "ready"
    /\ si <= Len(scene_texts)
    /\ IF HasText(scene_texts[si])
         THEN /\ providers_to_try' = VoiceProvidersToTry(provider)
              /\ pidx' = 1
              /\ pc' = "loop"
              /\ tts_called' = Append(tts_called, TRUE)
              /\ step' = "tts_call"
              /\ UNCHANGED <<tts_files, si>>
         ELSE /\ tts_files' = Append(tts_files, Null)
              /\ tts_called' = Append(tts_called, FALSE)
              /\ si' = si + 1
              /\ step' = IF si = Len(scene_texts) THEN "clips" ELSE "tts"
              /\ UNCHANGED <<providers_to_try, pidx, pc>>
    /\ UNCHANGED <<imgVars, cfgVars, auxVars, pollVars, clipVars, genVars, inputVars, url, retry, vidx, last_error,
                   outcome, file, validated, response, tried, failures, attempts, succeeded,
                   invokedAfterSuccess, calls, video_clips, reconVars, final_video,
                   result>>

\* generate_voice came back for scene si: its path, or None when it raised
TTSSceneDone ==
    /\ step = "tts_call"
    /\ pc \in {"returned", "raised"}
    /\ tts_files' = Append(tts_files, IF pc = "returned" THEN "path" ELSE Null)
    /\ si' = si + 1
    /\ step' = IF si = Len(scene_texts) THEN "clips" ELSE "tts"
    /\ ResetCall
    /\ UNCHANGED <<imgVars, cfgVars, auxVars, pollVars, clipVars, genVars, inputVars, tts_called, video_clips, reconVars,
                   final_video, result>>

\* the first clip loop, the empty check and concatenate_videoclips
BuildVideoClips ==
    /\ step = "clips"
    /\ LET clips == BuildClips(images, scene_durations) IN
       IF clips = <<>>
         THEN /\ step' = "failed"
              /\ result' = Raised("Exception")
              /\ UNCHANGED <<video_clips, final_video, si>>
         ELSE /\ video_clips' = clips
              /\ final_video' = [clips |-> clips, audio |-> Null, music |-> NoMusic]
              /\ step' = IF AnyTts(tts_files) THEN "recon" ELSE "music"
              /\ si' = 1
              /\ result' = result
    /\ UNCHANGED <<imgVars, cfgVars, auxVars, pollVars, clipVars, genVars, callVars, inputVars, ttsVars, reconVars>>

\* one iteration of the reconciliation loop over tts_files
ReconcileScene ==
    /\ step = "recon"
    /\ si <= Len(tts_files)
    /\ \E loads \in BOOLEAN, d \in AudioDurations, startOk \in BOOLEAN :
         LET hasFile == tts_files[si] # Null
             adj == AdjustedAfter(adjusted_scene_durations, scene_durations[si],
                                  hasFile, loads, d, startOk)
         IN
         /\ adjusted_scene_durations' = adj
         /\ loaded' = Append(loaded, IF hasFile /\ loads THEN d ELSE -1)
         /\ audio_clips' =
              IF hasFile /\ loads /\ d > 0 /\ startOk
                THEN Append(audio_clips,
                            [scene |-> si, start |-> current_time, duration |-> d])
                ELSE audio_clips
         /\ current_time' = current_time + Last(adj)
         /\ starts' = Append(starts, current_time)
    /\ si' = si + 1
    /\ step' = IF si = Len(tts_files) THEN "rebuild" ELSE "recon"
    /\ UNCHANGED <<imgVars, cfgVars, auxVars, pollVars, clipVars, genVars, callVars, inputVars, ttsVars, video_clips,
                   final_video, result>>

\* the clips are rebuilt when a duration changed; the narration is attached
RebuildAndAttach ==
    /\ step = "rebuild"
    /\ LET changed == adjusted_scene_durations # scene_durations
           clips == IF changed THEN BuildClips(images, adjusted_scene_durations)
                    ELSE video_clips
           shown == IF changed /\ clips # <<>> THEN clips ELSE final_video.clips
       IN
       /\ video_clips' = clips
       /\ \E attachOk \in BOOLEAN :
            final_video' =
              [clips |-> shown,
               audio |-> IF audio_clips # <<>> /\ attachOk
                           THEN ConcatAudio(audio_clips, 0) ELSE Null,
               music |-> NoMusic]
    /\ step' = "music"
    /\ UNCHANGED <<imgVars, cfgVars, auxVars, pollVars, clipVars, genVars, callVars, inputVars, si, ttsVars, reconVars,
                   result>>

\* the background music block: skipped without a music file, else the music
\* is mixed into the audio of final_video, or the failure is logged
AddBackgroundMusic ==
    /\ step = "music"
    /\ \E given \in BOOLEAN, m \in MusicDurations, mixOk \in BOOLEAN :
         /\ (~given) => (mixOk /\ m = 0)
         /\ background_music' = given
         /\ final_video' = [final_video EXCEPT
                               !.music = IF given
                                           THEN MixMusic(TtsMusicVolume,
                                                         VideoLength(final_video.clips), m,
                                                         final_video.audio # Null, mixOk)
                                           ELSE NoMusic]
    /\ step' = "render"
    /\ UNCHANGED <<imgVars, cfgVars, auxVars, pollVars, clipVars, genVars, callVars, scenes, images,
                   scene_durations, scene_texts, voice_setting, si, ttsVars,
                   video_clips, reconVars, result>>

\* final_video.write_videofile: the path, or the exception re-raised
Render ==
    /\ step = "render"
    /\ \E ok \in BOOLEAN :
         IF ok THEN /\ step' = "done"
                    /\ result' = Returned
               ELSE /\ step' = "failed"
                    /\ result' = Raised("Exception")
    /\ writes' = writes + 1
    /\ UNCHANGED <<imgVars, cfgVars, effect_clip, sessions, temp_owner, terminal_seen, file_before, pollVars, clipVars, genVars, callVars, inputVars, si, ttsVars, video_clips,
                   reconVars, final_video>>

\* --------------------------------------------------------- image loops
\* a variant that swallows the exception inside the loop
AppAfterCall_Continue(callpc) == "continue"

\* what create_images_tab does with a generate_image call that raised: the
\* exception leaves the loop and is shown by the handler's except clause
AppAfterCall(callpc) == IF callpc = "raised" THEN "abort" ELSE "continue"

\* what generate_batch_images can put in the list for a prompt whose
\* generate_image call raised: the placeholder, the plain fallback image, or
\* nothing when neither can be written
BatchFallbacks == {"placeholder", "simple", "skip"}

\* a variant that puts a fallback image at the head of the list
BatchAppend_Front(paths, i, callpc, fb) ==
    IF callpc = "returned" THEN Append(paths, [prompt |-> i, kind |-> "real"])
    ELSE IF fb = "skip" THEN paths
    ELSE <<[prompt |-> i, kind |-> fb]>> \o paths

\* image_paths after generate_batch_images handled prompt i
BatchAppend(paths, i, callpc, fb) ==
    IF callpc = "returned" THEN Append(paths, [prompt |-> i, kind |-> "real"])
    ELSE IF fb = "skip" THEN paths
    ELSE Append(paths, [prompt |-> i, kind |-> fb])

\* create_images_tab: the provider switch, the generator, the loop set-up
AppStart ==
    /\ entry = "app"
    /\ step = "new"
    /\ \E n \in 1..MaxPrompts, p \in ImageProviders :
         LET chosen == IF p \in {"openai", "stability", "replicate", "huggingface"}
                          /\ get_api_key(api_keys, p) = Null
                         THEN "pollinations" ELSE p
             key == InitApiKey(chosen, FALSE, api_keys)
         IN
         /\ num_prompts' = n
         /\ provider' = chosen
         /\ api_key' = key
         /\ cap' = cap
         /\ IF CtorRaises("image", chosen, key)
              THEN /\ pc' = "ctor_error"
                   /\ step' = "failed"
              ELSE /\ pc' = "ready"
                   /\ step' = "img_loop"
    /\ si' = 1
    /\ UNCHANGED <<cfgVars, auxVars, pollVars, clipVars, videoVars, result, image_paths, session_paths, img_failed,
                   providers_to_try, pidx, url, retry, vidx, last_error, outcome,
                   file, validated, response, tried, failures, attempts, succeeded, invokedAfterSuccess,
                   calls>>

\* generate_batch_images up to its loop
BatchStart ==
    /\ entry = "batch"
    /\ step = "new"
    /\ pc = "ready"
    /\ \E n \in 1..MaxPrompts : num_prompts' = n
    /\ si' = 1
    /\ step' = "img_loop"
    /\ UNCHANGED <<cfgVars, auxVars, pollVars, clipVars, genVars, callVars, videoVars, result, image_paths,
                   session_paths, img_failed>>

\* either loop calls generate_image for prompt si
ImageLoopCall ==
    /\ step = "img_loop"
    /\ pc = "ready"
    /\ si <= num_prompts
    /\ providers_to_try' = ImageProvidersToTry(provider, api_keys)
    /\ pidx' = 1
    /\ pc' = "loop"
    /\ step' = "img_call"
    /\ file_before' = file
    /\ UNCHANGED <<imgVars, cfgVars, effect_clip, writes, sessions, temp_owner, terminal_seen, pollVars, clipVars, genVars, videoVars, si, result, url, retry, vidx,
                   last_error, outcome, file, validated, response, tried, failures, attempts, succeeded,
                   invokedAfterSuccess, calls>>

\* create_images_tab: generate_image came back for prompt si
AppImageDone ==
    /\ entry = "app"
    /\ step = "img_call"
    /\ pc \in {"returned", "raised"}
    /\ IF AppAfterCall(pc) = "abort"
         THEN /\ step' = "failed"
              /\ result' = Raised("Exception")
              /\ img_failed' = img_failed \cup {si}
              /\ UNCHANGED <<image_paths, session_paths, si>>
         ELSE LET paths == Append(image_paths, [prompt |-> si, kind |-> "real"]) IN
              /\ image_paths' = paths
              /\ img_failed' = IF pc = "raised" THEN img_failed \cup {si} ELSE img_failed
              /\ si' = si + 1
              /\ IF si = num_prompts
                   THEN /\ session_paths' = paths
                        /\ step' = "done"
                        /\ result' = Returned
                   ELSE /\ step' = "img_loop"
                        /\ UNCHANGED <<session_paths, result>>
    /\ ResetCall
    /\ UNCHANGED <<cfgVars, auxVars, pollVars, clipVars, genVars, videoVars, num_prompts>>

\* generate_batch_images: generate_image came back for prompt si
BatchImageDone ==
    /\ entry = "batch"
    /\ step = "img_call"
    /\ pc \in {"returned", "raised"}
    /\ \E fb \in BatchFallbacks :
         image_paths' = BatchAppend(image_paths, si, pc, fb)
    /\ img_failed' = IF pc = "raised" THEN img_failed \cup {si} ELSE img_failed
    /\ si' = si + 1
    /\ IF si = num_prompts
         THEN /\ step' = "done"
              /\ result' = Returned
         ELSE /\ step' = "img_loop"
              /\ result' = result
    /\ ResetCall
    /\ UNCHANGED <<cfgVars, auxVars, pollVars, clipVars, genVars, videoVars, num_prompts, session_paths>>

\* ------------------------------------------- create_video_from_images
NoAudio == [source |-> 0, length |-> 0, trimmed |-> FALSE, loops |-> 0]

\* a variant that attaches the narration as it is
AddAudioToClip_Unmodified(c, loads, d, setOk) ==
    IF ~loads \/ ~setOk THEN NoAudio
    ELSE [source |-> d, length |-> d, trimmed |-> FALSE, loops |-> 1]

\* _add_audio_to_clip: the audio a clip of length c carries afterwards.
\* loads: AudioFileClip(audio_path) did not raise; d: its duration;
\* setOk: subclip / concatenate_audioclips / set_audio did not raise.
\* Any exception (also the division by a zero duration) returns the clip
\* as it was.
AddAudioToClip(c, loads, d, setOk) ==
    IF ~loads \/ ~setOk THEN NoAudio
    ELSE IF d > c THEN [source |-> d, length |-> c, trimmed |-> TRUE, loops |-> 1]
    ELSE IF d < c
           THEN IF d = 0 THEN NoAudio
                ELSE [source |-> d, length |-> c, trimmed |-> TRUE,
                      loops |-> (c \div d) + 1]
    ELSE [source |-> d, length |-> d, trimmed |-> FALSE, loops |-> 1]

\* create_video_from_images up to its loop, with the default voice_settings
CreateVideoFromImages ==
    /\ entry = "from_images"
    /\ step = "new"
    /\ \E n \in 1..MaxClips :
       \E tx \in [1..n -> {"text", ""}], im \in [1..n -> BOOLEAN], d \in ReqDurations :
          /\ Cardinality({i \in 1..n : ~im[i]}) <= MaxBadImages
          /\ images' = im
          /\ scene_durations' = [i \in 1..n |-> d]
          /\ scene_texts' = tx
    /\ voice_setting' = "edge"
    /\ si' = 1
    /\ step' = "fi_loop"
    /\ UNCHANGED <<imgVars, cfgVars, auxVars, pollVars, clipVars, genVars, callVars, scenes,
                   background_music, ttsVars, video_clips, reconVars, final_video,
                   result>>

\* the loop body for image si: _create_image_clip, then _generate_scene_tts
\* (a new VoiceGenerator and its generate_voice call) when there is text
FromImagesScene ==
    /\ step = "fi_loop"
    /\ pc \in {"new", "ready"}
    /\ si <= Len(images)
    /\ IF ~images[si]
         THEN /\ step' = "failed"
              /\ result' = Raised("Exception")
              /\ UNCHANGED <<genVars, pc, providers_to_try, pidx, clipVars, si>>
         ELSE IF HasText(scene_texts[si])
         THEN /\ provider' = voice_setting
              /\ api_key' = InitApiKey(voice_setting, FALSE, api_keys)
              /\ cap' = cap
              /\ providers_to_try' = VoiceProvidersToTry(voice_setting)
              /\ pidx' = 1
              /\ pc' = "loop"
              /\ step' = "fi_tts"
              /\ UNCHANGED <<clipVars, si, result>>
         ELSE /\ scene_audio_paths' = Append(scene_audio_paths, Null)
              /\ image_clips' = Append(image_clips,
                     [scene |-> si, duration |-> scene_durations[si],
                      tier |-> KenBurnsTier(scene_durations[si]), audio |-> NoAudio])
              /\ si' = si + 1
              /\ step' = IF si = Len(images) THEN "fi_finish" ELSE "fi_loop"
              /\ UNCHANGED <<genVars, pc, providers_to_try, pidx, result>>
    /\ UNCHANGED <<imgVars, cfgVars, auxVars, pollVars, inputVars, url, retry, vidx, last_error,
                   outcome, file, validated, response, tried, failures, attempts,
                   succeeded, invokedAfterSuccess, calls, ttsVars, video_clips,
                   reconVars, final_video>>

\* _generate_scene_tts came back for image si: _add_audio_to_clip on a path,
\* the bare clip on None
FromImagesSceneDone ==
    /\ step = "fi_tts"
    /\ pc \in {"returned", "raised"}
    /\ LET c == scene_durations[si] IN
       IF pc = "returned"
         THEN /\ scene_audio_paths' = Append(scene_audio_paths, "path")
              /\ \E loads \in BOOLEAN, d \in ClipAudioDurations, setOk \in BOOLEAN :
                   image_clips' = Append(image_clips,
                       [scene |-> si, duration |-> c, tier |-> KenBurnsTier(c),
                        audio |-> AddAudioToClip(c, loads, d, setOk)])
         ELSE /\ scene_audio_paths' = Append(scene_audio_paths, Null)
              /\ image_clips' = Append(image_clips,
                     [scene |-> si, duration |-> c, tier |-> KenBurnsTier(c),
                      audio |-> NoAudio])
    /\ si' = si + 1
    /\ step' = IF si = Len(images) THEN "fi_finish" ELSE "fi_loop"
    /\ ResetCall
    /\ UNCHANGED <<imgVars, cfgVars, auxVars, pollVars, genVars, inputVars, ttsVars, video_clips,
                   reconVars, final_video, result>>

\* clip.audio of the concatenated clips: some clip carries narration
ClipsHaveAudio(cl) == \E k \in 1..Len(cl) : cl[k].audio # NoAudio

\* a clip of create_video_from_images with its fades
Faded(c, fin, fout) ==
    [scene |-> c.scene, duration |-> c.duration, tier |-> c.tier, audio |-> c.audio,
     fade_in |-> fin, fade_out |-> fout]

\* _concatenate_with_transitions: a single clip is returned as it is; else
\* FadeIn on the first clip and FadeOut on every clip; when that raises
\* (fadeOk false) the clips are concatenated without fades
ConcatenateWithTransitions(clips, fadeOk) ==
    IF Len(clips) = 1 \/ ~fadeOk
      THEN [k \in 1..Len(clips) |-> Faded(clips[k], FALSE, FALSE)]
      ELSE [k \in 1..Len(clips) |-> Faded(clips[k], k = 1, TRUE)]

\* _concatenate_with_transitions, _add_background_music and write_videofile
FromImagesFinish ==
    /\ step = "fi_finish"
    /\ \E given \in BOOLEAN, m \in MusicDurations, mixOk \in BOOLEAN, ok \in BOOLEAN,
          fadeOk \in BOOLEAN :
         /\ (~given) => (mixOk /\ m = 0)
         /\ background_music' = given
         /\ final_video' = [clips |-> ConcatenateWithTransitions(image_clips, fadeOk),
                            audio |-> Null,
                            music |-> IF given
                                        THEN MixMusic(ClipMusicVolume,
                                                      VideoLength(image_clips), m,
                                                      ClipsHaveAudio(image_clips), mixOk)
                                        ELSE NoMusic]
         /\ IF ok THEN /\ step' = "done"
                       /\ result' = Returned
                  ELSE /\ step' = "failed"
                       /\ result' = Raised("Exception")
    /\ writes' = writes + 1
    /\ UNCHANGED <<imgVars, cfgVars, effect_clip, sessions, temp_owner, terminal_seen, file_before, pollVars, clipVars, genVars, callVars, scenes, images,
                   scene_durations, scene_texts, voice_setting, si, ttsVars,
                   video_clips, reconVars>>

\* ------------------------------------------------------ _create_image_clip
\* the effect argument of _create_image_clip
EffectNames == {"ken_burns", "zoom_in", "zoom_out", "pan_left", "pan_right",
                "static", "other"}
\* clip durations around the two thresholds, in tenths of a second
EffectDurations == {19, 20, 49, 50, 51}

\* the if/elif chain of _create_image_clip: an unknown name is Ken Burns
EffectApplied(e) ==
    IF e \in {"zoom_in", "zoom_out", "pan_left", "pan_right", "static"} THEN e
    ELSE "ken_burns"

\* _create_image_clip on a readable image.  moved: clip.resize(...) and
\* set_position(...) did not raise; when they raise the clip comes back
\* without the motion
CreateImageClip ==
    /\ entry = "effect"
    /\ effect_clip = NoClip
    /\ \E d \in EffectDurations, e \in EffectNames, moved \in BOOLEAN :
         effect_clip' =
           [duration |-> d, effect |-> EffectApplied(e), moved |-> moved,
            tier |-> IF EffectApplied(e) = "ken_burns" THEN KenBurnsTier(d) ELSE NoTier]
    /\ UNCHANGED <<runVars, cfgVars, pollVars, clipVars, genVars, callVars, writes,
                   sessions, temp_owner, terminal_seen, file_before>>

\* ------------------------------------------- two runs side by side
\* the narration path of scene s (1-based) of a run: _create_video_with_tts
\* numbers the files from 1 (i+1), _generate_scene_tts from 0 (scene_index)
TtsPath(kind, s) == IF kind = "complete" THEN ScenePath(s) ELSE ScenePath(s - 1)

\* a run starts: create_complete_video or create_video_from_images, every
\* scene with a text
SessionStart ==
    /\ entry = "sessions"
    /\ \E r \in Runs, k \in RunKinds, n \in 1..MaxSessionScenes :
         /\ sessions[r].pc = "new"
         /\ sessions' = [sessions EXCEPT ![r] =
                           [kind |-> k, pc |-> "tts", n |-> n, scene |-> 1,
                            writing |-> NoPath, foreign |-> FALSE]]
    /\ UNCHANGED <<runVars, cfgVars, pollVars, clipVars, genVars, callVars, effect_clip,
                   writes, temp_owner, terminal_seen, file_before>>

\* generate_voice(text, output_path=tts_path) begins to write the narration
\* of the run's current scene
SessionGenerateVoice ==
    /\ \E r \in Runs :
         LET ss == sessions[r]
             path == TtsPath(ss.kind, ss.scene)
         IN
         /\ ss.pc = "tts"
         /\ sessions' = [sessions EXCEPT ![r].pc = "writing", ![r].writing = path]
         /\ temp_owner' = [temp_owner EXCEPT ![path] = r]
    /\ UNCHANGED <<runVars, cfgVars, pollVars, clipVars, genVars, callVars, effect_clip,
                   writes, terminal_seen, file_before>>

\* generate_voice returned the path: create_complete_video goes on to the
\* next scene and loads the files after the last one, create_video_from_images
\* loads the file at once (_add_audio_to_clip)
SessionVoiceDone ==
    /\ \E r \in Runs :
         LET ss == sessions[r] IN
         /\ ss.pc = "writing"
         /\ sessions' = [sessions EXCEPT
               ![r].writing = NoPath,
               ![r].pc = IF ss.kind = "from_images" THEN "load"
                         ELSE IF ss.scene < ss.n THEN "tts" ELSE "load",
               ![r].scene = IF ss.kind = "from_images" THEN ss.scene
                            ELSE IF ss.scene < ss.n THEN ss.scene + 1 ELSE 1]
    /\ UNCHANGED <<runVars, cfgVars, pollVars, clipVars, genVars, callVars, effect_clip,
                   writes, temp_owner, terminal_seen, file_before>>

\* AudioFileClip(tts_file) for the run's current scene: the run reads what
\* was written to that path last
SessionLoadAudio ==
    /\ \E r \in Runs :
         LET ss == sessions[r]
             path == TtsPath(ss.kind, ss.scene)
         IN
         /\ ss.pc = "load"
         /\ sessions' = [sessions EXCEPT
               ![r].foreign = ss.foreign \/ temp_owner[path] # r,
               ![r].pc = IF ss.scene = ss.n THEN "render_ready"
                         ELSE IF ss.kind = "from_images" THEN "tts" ELSE "load",
               ![r].scene = IF ss.scene < ss.n THEN ss.scene + 1 ELSE ss.scene]
    /\ UNCHANGED <<runVars, cfgVars, pollVars, clipVars, genVars, callVars, effect_clip,
                   writes, temp_owner, terminal_seen, file_before>>

\* write_videofile(..., temp_audiofile='temp-audio.m4a') begins
SessionWriteVideo ==
    /\ \E r \in Runs :
         /\ sessions[r].pc = "render_ready"
         /\ sessions' = [sessions EXCEPT ![r].pc = "render", ![r].writing = TempAudioPath]
         /\ temp_owner' = [temp_owner EXCEPT ![TempAudioPath] = r]
    /\ UNCHANGED <<runVars, cfgVars, pollVars, clipVars, genVars, callVars, effect_clip,
                   writes, terminal_seen, file_before>>

\* write_videofile muxes the temporary audio it finds and removes it
\* (remove_temp=True)
SessionWriteDone ==
    /\ \E r \in Runs :
         LET ss == sessions[r] IN
         /\ ss.pc = "render"
         /\ sessions' = [sessions EXCEPT
               ![r].pc = "done", ![r].writing = NoPath,
               ![r].foreign = ss.foreign \/ temp_owner[TempAudioPath] # r]
         /\ temp_owner' = [temp_owner EXCEPT ![TempAudioPath] = 0]
    /\ UNCHANGED <<runVars, cfgVars, pollVars, clipVars, genVars, callVars, effect_clip,
                   writes, terminal_seen, file_before>>

\* --------------------------------------------------- status polling
MaxAttempts(k) == IF k = "runwayml" THEN RunwayMaxAttempts ELSE PikaMaxAttempts

\* a variant that tests the bound after one more round
LoopContinues_OneMore(k, waited, att) ==
    IF k \in {"veo3", "flow"} THEN waited <= MaxWait ELSE att <= MaxAttempts(k)

\* the loop conditions: `while ... < max_wait`, `for attempt in range(max_attempts)`
LoopContinues(k, waited, att) ==
    IF k \in {"veo3", "flow"} THEN waited < MaxWait ELSE att < MaxAttempts(k)

\* what a status check does to the loop of kind k: "video" leaves it with the
\* video, "stop" leaves it without, "raise" leaves it with an exception,
\* "again" sleeps and goes round.  dl: the download of the video succeeded;
\* att: the loop index of the for loops
PollControl(k, st, dl, att) ==
    CASE k = "veo3" ->
           IF st \in {"completed", "completed_nourl"} THEN "video"
           ELSE IF st \in {"failed", "error"} THEN "stop"
           ELSE "again"
      [] k = "flow" ->
           IF st = "completed" THEN (IF dl THEN "video" ELSE "stop")
           ELSE IF st \in {"completed_nourl", "error"} THEN "stop"
           ELSE "again"
      [] OTHER ->
           IF st = "completed" /\ dl THEN "video"
           ELSE IF st = "pending" THEN "again"
           ELSE IF att = MaxAttempts(k) - 1 THEN "raise" ELSE "again"

\* how a loop that ran out of time or attempts ends: None, no video URL, or
\* the timeout exception
TimeoutResult(k) == IF k \in {"veo3", "flow"} THEN "none" ELSE "raise"

\* entering one of the polling functions for a job that was submitted
StartPolling ==
    /\ entry = "poll"
    /\ poll_pc = "new"
    /\ \E k \in PollKinds : poll_kind' = k
    /\ poll_pc' = "polling"
    /\ UNCHANGED <<runVars, cfgVars, auxVars, clipVars, genVars, callVars, checks, wait_time,
                   attempt, job_completed, poll_result, motion_result>>

\* one round of the loop: the status check and what follows from it
PollCheck ==
    /\ poll_pc = "polling"
    /\ \E st \in StatusAnswers, dl \in BOOLEAN, rt \in RequestSeconds :
         LET c == PollControl(poll_kind, st, dl, attempt)
             waited == wait_time + SleepSeconds + (IF poll_kind = "veo3" THEN rt ELSE 0)
         IN
         /\ checks' = checks + 1
         /\ job_completed' = (job_completed \/ st \in {"completed", "completed_nourl"})
         /\ terminal_seen' = (terminal_seen \/ st \in TerminalAnswers)
         /\ IF c = "again"
              THEN /\ wait_time' = IF poll_kind \in {"veo3", "flow"} THEN waited ELSE wait_time
                   /\ attempt' = IF poll_kind \in {"veo3", "flow"} THEN attempt ELSE attempt + 1
                   /\ IF LoopContinues(poll_kind, wait_time', attempt')
                        THEN UNCHANGED <<poll_pc, poll_result>>
                        ELSE /\ poll_pc' = "done"
                             /\ poll_result' = TimeoutResult(poll_kind)
              ELSE /\ poll_pc' = "done"
                   /\ poll_result' = CASE c = "video" -> "video"
                                        [] c = "stop" -> "none"
                                        [] OTHER -> "raise"
                   /\ UNCHANGED <<wait_time, attempt>>
    /\ UNCHANGED <<runVars, cfgVars, effect_clip, writes, sessions, temp_owner, file_before,
                   clipVars, genVars, callVars, poll_kind, motion_result>>

\* the placeholder functions: the animated placeholder, else the plain
\* video, else the exception of the last fallback
PlaceholderResults == {"placeholder", "raise"}

\* _generate_runwayml_motion / _generate_pika_motion: the video of the polling
\* function, or on its exception _create_placeholder_motion_video
MotionReturn ==
    /\ poll_pc = "done"
    /\ poll_kind \in {"runwayml", "pika"}
    /\ IF poll_result = "raise"
         THEN \E r \in PlaceholderResults : motion_result' = r
         ELSE motion_result' = poll_result
    /\ poll_pc' = "returned"
    /\ UNCHANGED <<runVars, cfgVars, auxVars, clipVars, genVars, callVars, poll_kind, checks,
                   wait_time, attempt, job_completed, poll_result>>

Next ==
    \/ Construct
    \/ StartGenerateImage
    \/ StartGenerateVoice
    \/ TrySimpleProvider
    \/ EnterPollinations
    \/ PollinationsRequest
    \/ EnterEdge
    \/ EdgeRequest
    \/ AllProvidersFailed
    \/ CreateCompleteVideo
    \/ TTSSetup
    \/ TTSScene
    \/ TTSSceneDone
    \/ BuildVideoClips
    \/ ReconcileScene
    \/ RebuildAndAttach
    \/ AddBackgroundMusic
    \/ Render
    \/ AppStart
    \/ BatchStart
    \/ ImageLoopCall
    \/ AppImageDone
    \/ BatchImageDone
    \/ CreateVideoFromImages
    \/ FromImagesScene
    \/ FromImagesSceneDone
    \/ FromImagesFinish
    \/ StartPolling
    \/ PollCheck
    \/ MotionReturn
    \/ CreateImageClip
    \/ SessionStart
    \/ SessionGenerateVoice
    \/ SessionVoiceDone
    \/ SessionLoadAudio
    \/ SessionWriteVideo
    \/ SessionWriteDone

Spec == Init /\ [][Next]_vars

\* ------------------------------------------------------------------ claims
\* the provider the call ended on: the last "Trying ... provider" line
ProviderUsed == tried[Len(tried)]

\* C1: when the first k candidates fail and candidate k+1 succeeds, the call
\* returns, output_path holds the artifact written by candidate k+1, and
\* candidate k+1 is the provider reported as used; the k failures are those
\* of the first k candidates, in order.
C1_FallbackCorrectness ==
    (pc = "returned") =>
        /\ tried # <<>>
        /\ Len(tried) = Len(failures) + 1
        /\ tried = SubSeq(providers_to_try, 1, Len(tried))
        /\ \A i \in 1..Len(failures) : failures[i][1] = providers_to_try[i]
        /\ ProviderUsed = providers_to_try[Len(failures) + 1]
        /\ file = [writer |-> ProviderUsed, valid |-> TRUE]

C1_Witness ==
    /\ pc = "returned"
    /\ cap = "voice"
    /\ Len(failures) >= 2
    /\ file.writer = providers_to_try[Len(failures) + 1]

C3_PermanentFallsThrough ==
    (Len(failures) >= 1 /\ failures[1] = <<provider, "auth">>) =>
        /\ attempts[provider] = 1
        /\ Len(providers_to_try) > 1

\* C4: no request is sent after the first successful attempt of a call, and a
\* success ends the call.
C4_AtMostOneAccepted ==
    /\ ~invokedAfterSuccess
    /\ succeeded => pc = "returned"

C4_Witness ==
    /\ pc = "returned"
    /\ succeeded
    /\ attempts["pollinations"] >= 3
    /\ url >= 2

\* C5 (as stated): a generator built for one provider sends requests to that
\* provider only.
C5_OnlyRequestedProvider ==
    \A q \in AllProviders : attempts[q] > 0 => q = provider

\* C5 (amended): generate_image invokes exactly one provider per call, the
\* requested one when it is pollinations or has a stored key and pollinations
\* otherwise, and no other provider when it fails; generate_voice tries the
\* requested provider first and then falls back to the other providers.
C5_SingleImageProvider ==
    /\ cap = "image" =>
          /\ Len(tried) <= 1
          /\ \A q \in AllProviders : attempts[q] > 0 =>
                q = (IF provider = "pollinations" \/ provider \in api_keys
                       THEN provider ELSE "pollinations")
    /\ (cap = "voice" /\ tried # <<>> /\ provider \in VoiceProviders) =>
          tried[1] = provider

C5_Witness ==
    /\ cap = "image"
    /\ pc = "raised"
    /\ provider = "stability"
    /\ tried = <<"stability">>
    /\ failures = <<<<"stability", "error">>>>
    /\ attempts = [ZeroAttempts EXCEPT !["stability"] = 1]

\* C6: a caller that holds a credential for the requested image provider
\* (stored or passed to the constructor) gets that provider tried first.
C6_CredentialedRequestedFirst ==
    (cap = "image" /\ tried # <<>> /\ provider \in ImageProviders /\ api_key # Null) =>
        tried[1] = provider

\* C7: every scene whose narration audio loads with a duration d > 0 has the
\* reconciled duration d + 0.5 s at its own index of
\* adjusted_scene_durations.
C7_DurationInvariant ==
    \A i \in 1..Len(loaded) :
        loaded[i] > 0 => adjusted_scene_durations[i] = loaded[i] + Buffer

\* a scene whose generate_voice call raised on every provider
TtsExhausted(i) == tts_called[i] /\ i <= Len(tts_files) /\ tts_files[i] = Null

\* C8: in a run that completes, a scene whose narration failed on every
\* provider has its clip in the video with its requested duration and no
\* narration clip, the scenes whose narration succeeded keep their files, and
\* the run returns the output path.
C8_DegradedAudioScene ==
    (step = "done" /\ entry = "video") =>
        \A i \in 1..Len(scenes) :
            (TtsExhausted(i) /\ images[i]) =>
                /\ \E k \in 1..Len(final_video.clips) :
                      /\ final_video.clips[k].scene = i
                      /\ final_video.clips[k].duration = scene_durations[i]
                /\ \A k \in 1..Len(audio_clips) : audio_clips[k].scene # i
                /\ result = Returned

PathsOfPrompt(i) == {k \in 1..Len(image_paths) : image_paths[k].prompt = i}

HasSpeech(s) == s.dialogue # "" \/ s.narrator # ""

Speakable(s) ==
    LET t == IF s.dialogue # "" /\ s.dialogue_type # "none" THEN s.dialogue
             ELSE IF s.narrator # "" /\ s.narrator_type # "none" THEN s.narrator
             ELSE s.description
    IN  t \notin {"", " "}

C11_RequestedLowerBound ==
    \A i \in 1..Len(adjusted_scene_durations) :
        i <= Len(scene_durations) => adjusted_scene_durations[i] >= scene_durations[i]

\* C11 (amended): the requested duration is a default, not a lower bound: the
\* reconciliation iteration of a scene whose narration loads with a length
\* d > 0 appends d + 0.5 s, also when that is below the requested duration,
\* and the iteration of a scene without usable narration appends exactly the
\* requested duration.
C11_RequestedIsDefault ==
    [][step = "recon" =>
         LET k == Len(adjusted_scene_durations) + 1
             adj == adjusted_scene_durations'
         IN  /\ Len(adj) >= k
             /\ loaded'[si] > 0 => adj[k] = loaded'[si] + Buffer
             /\ loaded'[si] <= 0 => adj = Append(adjusted_scene_durations,
                                                 scene_durations[si])]_vars

C11_Witness ==
    /\ step = "done"
    /\ loaded = <<12, -1>>
    /\ adjusted_scene_durations = <<17, 30>>
    /\ scene_durations = <<30, 30>>
    /\ final_video.clips[1].duration = 17

\* the narration clips of _create_video_with_tts keep the length they were
\* loaded with, in audio_clips and in the concatenated track
TtsNarrationUnmodified ==
    /\ \A k \in 1..Len(audio_clips) :
          audio_clips[k].duration = loaded[audio_clips[k].scene]
    /\ (entry = "video" /\ final_video.audio # Null) =>
          /\ Len(final_video.audio) = Len(audio_clips)
          /\ \A k \in 1..Len(audio_clips) :
                final_video.audio[k].duration = audio_clips[k].duration

ClipStart(cl, k) == SumSeq([j \in 1..(k - 1) |-> cl[j].duration])

\* the video has been assembled by _create_video_with_tts
Assembled == entry = "video" /\ step \in {"music", "render", "done"}

\* C13: in the assembled video the narration of every scene begins where the
\* clip of that scene begins.
C13_AudioSync ==
    (Assembled /\ final_video.audio # Null) =>
        \A a \in 1..Len(final_video.audio) : \A k \in 1..Len(final_video.clips) :
            final_video.clips[k].scene = final_video.audio[a].scene =>
                final_video.audio[a].start = ClipStart(final_video.clips, k)

\* C14: the start offsets the reconciliation loop assigns are contiguous:
\* the first is 0 and each scene begins where the previous one, with its
\* reconciled duration, ends.
C14_ContiguousOffsets ==
    \A i \in 1..Len(starts) :
        /\ i = 1 => starts[i] = 0
        /\ i < Len(starts) =>
              starts[i] + adjusted_scene_durations[i] = starts[i + 1]

\* the duration scene i is meant to have: its narration length plus the
\* buffer when a narration was loaded for it, else its requested duration
EffectiveDuration(i) ==
    IF i <= Len(loaded) /\ loaded[i] > 0 THEN loaded[i] + Buffer
    ELSE scene_durations[i]

\* C15: the rendered video is as long as the effective durations of all the
\* scenes of the input together.
C15_TotalLength ==
    (entry = "video" /\ step = "done") =>
        VideoLength(final_video.clips) =
            SumSeq([i \in 1..Len(scenes) |-> EffectiveDuration(i)])

\* C16: in the concatenated video the clip at position i is the clip of
\* scene i: every scene is there, at its own position.
C16_SceneOrder ==
    Assembled =>
        /\ Len(final_video.clips) = Len(scenes)
        /\ \A k \in 1..Len(final_video.clips) : final_video.clips[k].scene = k

\* the narration generated for scene i is part of the video's audio
NarrationInVideo(i) ==
    /\ final_video.audio # Null
    /\ \E a \in 1..Len(final_video.audio) : final_video.audio[a].scene = i

\* C17: a run that returns its output path has lost nothing: every scene has
\* its clip, every narration that was generated is in the audio, the
\* background music that was given is mixed in; and a motion provider call
\* that failed ends in an error for the caller of generate_motion.
C17_NoSwallowedFailure ==
    /\ (entry = "video" /\ step = "done") =>
          /\ Len(final_video.clips) = Len(scenes)
          /\ \A i \in 1..Len(tts_files) : tts_files[i] # Null => NarrationInVideo(i)
          /\ background_music => final_video.music # NoMusic
    /\ (poll_pc = "returned" /\ poll_result = "raise") => motion_result = "raise"

\* the most status checks a loop of kind k can make
MaxChecks(k) ==
    IF k \in {"veo3", "flow"} THEN MaxWait \div SleepSeconds ELSE MaxAttempts(k)

\* C18: every polling loop makes a bounded number of status checks (300 s of
\* 10 s sleeps, or max_attempts), is over once the bound is used up, and for
\* a job that never completed ends in a failure (None, no video, or an
\* exception), never in a video.
C18_BoundedPolling ==
    poll_kind # Null =>
        /\ checks <= MaxChecks(poll_kind)
        /\ poll_pc = "polling" => checks < MaxChecks(poll_kind)
        /\ (poll_pc \in {"done", "returned"} /\ ~job_completed) =>
              poll_result \in {"none", "raise"}

C18_Witness ==
    /\ poll_kind = "flow"
    /\ poll_pc = "done"
    /\ checks = 30
    /\ wait_time = MaxWait
    /\ ~job_completed
    /\ poll_result = "none"

\* pollinations was given up: the function raised after its last URL
PollinationsExhausted ==
    \E i \in 1..Len(failures) : failures[i] = <<"pollinations", "exhausted">>

\* C19 (as stated): pollinations receives at most maxRetries = 3 requests in
\* a call, and exactly 3 when it is given up.
C19_ThreeAttempts ==
    /\ attempts["pollinations"] <= NumRetries
    /\ PollinationsExhausted => attempts["pollinations"] = NumRetries

\* the answers the retry loop repeats on the same URL
Retryable == {"5xx", "timeout", "reqerr"}

\* C19 (amended): _generate_pollinations_image tries its 5 URLs in turn; a
\* timeout, an HTTP 500/502/503/504 or another request error is retried on
\* the same URL, up to 3 requests per URL; a non-image content type, a file
\* under 1000 bytes or any other exception is not retried but moves on to the
\* next URL; a provider that fails on every request has received between 5
\* and 15 requests when the function gives up.
C19_RetriesPerUrl ==
    /\ pc = "poll" =>
          /\ url \in 1..NumUrls
          /\ retry \in 0..(NumRetries - 1)
          /\ retry > 0 => response \in Retryable
          /\ (retry = 0 /\ url > 1) => response # "ok"
          /\ attempts["pollinations"] >= (url - 1) + retry
          /\ attempts["pollinations"] <= (url - 1) * NumRetries + retry
    /\ PollinationsExhausted =>
          /\ attempts["pollinations"] >= NumUrls
          /\ attempts["pollinations"] <= NumUrls * NumRetries

C19_Witness ==
    /\ PollinationsExhausted
    /\ pc = "raised"
    /\ attempts["pollinations"] = NumUrls * NumRetries
    /\ response = "timeout"

\* C20: an image that generate_image returns has passed the content-type and
\* size checks, whichever provider wrote it.
C20_ValidatedBeforeAccepted ==
    (cap = "image" /\ pc = "returned") => validated

\* the clips of the video that is written
RenderedClips ==
    IF step \in {"render", "done"} THEN final_video.clips
    ELSE IF step = "fi_finish" THEN image_clips
    ELSE <<>>

\* the clip _create_image_clip returned went through _apply_ken_burns_effect
KenBurnsClip == effect_clip.effect = "ken_burns"

\* C21 as stated: a clip under 2 s gets the fast parameters, one of 2 s to 5 s
\* inclusive the medium ones, and only one above 5 s the slow ones, computed
\* from the duration of the clip that is rendered.
C21_TierUpto5 ==
    LET Tiered(c) ==
          /\ c.duration < 20 => c.tier = FastTier
          /\ (c.duration >= 20 /\ c.duration <= 50) => c.tier = MediumTier
          /\ c.duration > 50 => c.tier = SlowTier
    IN  /\ \A k \in 1..Len(RenderedClips) : Tiered(RenderedClips[k])
        /\ KenBurnsClip => Tiered(effect_clip)

\* C21 amended: a clip under 2 s gets the fast parameters, one of 2 s up to
\* but not including 5 s the medium ones, and one of 5 s or more the slow ones,
\* computed from the duration of the clip that is rendered.
C21_TierBelow5 ==
    LET Tiered(c) ==
          /\ c.duration < 20 => c.tier = FastTier
          /\ (c.duration >= 20 /\ c.duration < 50) => c.tier = MediumTier
          /\ c.duration >= 50 => c.tier = SlowTier
    IN  /\ \A k \in 1..Len(RenderedClips) : Tiered(RenderedClips[k])
        /\ KenBurnsClip => Tiered(effect_clip)

\* a clip of exactly 5 s went through _apply_ken_burns_effect and was given
\* the slow parameters
C21_Witness ==
    KenBurnsClip /\ effect_clip.duration = 50 /\ effect_clip.tier = SlowTier

\* the run wrote its video: the clips that are in it
Written == entry \in {"video", "from_images"} /\ step = "done"

\* C22: in a written video of two or more clips, each clip but the last fades
\* out and its successor fades in, the first clip fades in from black and the
\* last clip fades out to black, in both composition paths.
C22_Fades ==
    LET cl == final_video.clips
        n == Len(cl)
    IN  (Written /\ n >= 2) =>
          /\ \A k \in 1..(n - 1) : cl[k].fade_out /\ cl[k + 1].fade_in
          /\ cl[1].fade_in
          /\ cl[n].fade_out

\* the written video carries narration
HasNarration ==
    IF entry = "video" THEN final_video.audio # Null
    ELSE ClipsHaveAudio(final_video.clips)

\* C23: a written video that was given a music file carries the music, as
\* long as the video (enough loops to cover it), attenuated, and composed
\* with the narration when there is narration.
C23_MusicMixed ==
    (Written /\ background_music) =>
        LET mu == final_video.music
            v == VideoLength(final_video.clips)
        IN  /\ mu # NoMusic
            /\ mu.length = v
            /\ mu.loops * mu.source >= v
            /\ mu.volume > 0 /\ mu.volume < 10
            /\ HasNarration => mu.mode = "composite"

\* C24: when create_complete_video renders, every scene has its clip with
\* its reconciled duration in the timeline; write_videofile is called at most
\* once, as the last step after the clips and the music; and a failed render
\* ends the run with the exception raised to the caller.
C24_PipelinePhases ==
    entry = "video" =>
        /\ step \in {"render", "done"} =>
              \A i \in 1..Len(scenes) :
                  \E k \in 1..Len(final_video.clips) :
                      /\ final_video.clips[k].scene = i
                      /\ final_video.clips[k].duration = EffectiveDuration(i)
        /\ writes <= 1
        /\ writes > 0 => step \in {"done", "failed"}
        /\ (step = "failed" /\ writes > 0) => result = Raised("Exception")

\* C25: two requests that are in flight at the same time write to different
\* temporary paths, also when they belong to two runs in the same working
\* directory, and no run loads or muxes a temporary file that another run
\* wrote.
C25_UniqueTempPaths ==
    /\ \A r1, r2 \in Runs :
          (r1 # r2 /\ sessions[r1].writing # NoPath) =>
              sessions[r1].writing # sessions[r2].writing
    /\ \A r \in Runs : ~sessions[r].foreign

\* the candidate list the generator builds from its provider and the store
CandidateList ==
    IF cap = "image" THEN ImageProvidersToTry(provider, api_keys)
    ELSE VoiceProvidersToTry(provider)

\* C26: no step of a generator that has been constructed changes
\* api_manager.api_keys, self.provider or self.api_key, and the candidate
\* list of a running call is the one these give, on every call.
C26_Stateless ==
    /\ [][pc \notin {"new", "ctor_error"} =>
             (api_keys' = api_keys /\ provider' = provider /\ api_key' = api_key)]_vars
    /\ [](pc \in {"loop", "poll", "edge"} => providers_to_try = CandidateList)

\* the second call on one generator fell back from the requested provider
\* and succeeded on another one
C26_Witness ==
    /\ entry = "voice"
    /\ provider = "openai"
    /\ calls = MaxCalls
    /\ pc = "returned"
    /\ Len(tried) > 1
    /\ tried[1] = "openai"

\* C27: every voice provider invoked during generate_voice is sent no
\* credential or the credential stored for that very provider.
C27_CredentialConfined ==
    cap = "voice" =>
        \A k \in 1..Len(tried) : CredentialSent(tried[k], api_key) \in {Null, tried[k]}

\* C28: in _poll_runwayml_result and _poll_pika_result, once a status check
\* has reported the task failed, or succeeded without a video URL, the loop
\* is over and the failure is raised: no status check follows.
C28_TerminalStopsPolling ==
    (poll_kind \in {"runwayml", "pika"} /\ terminal_seen) =>
        /\ poll_pc # "polling"
        /\ poll_result = "raise"

\* C29: when generate_image ends by raising, output_path holds what it held
\* before the call: no attempt whose artifact was rejected has created or
\* overwritten the file.
C29_NoRejectedArtifact ==
    (cap = "image" /\ pc = "raised") => file = file_before

\* the prompts generate_batch_images is done with
BatchHandled == 1..(IF step = "done" THEN num_prompts ELSE si - 1)

\* the handled prompts that have no path in the list
LeftOut == {i \in BatchHandled : PathsOfPrompt(i) = {}}

TypeOK ==
    /\ pc \in {"new", "ready", "ctor_error", "loop", "poll", "edge", "returned", "raised"}
    /\ api_keys \subseteq KeyProviders
====
